---- MODULE Spec2Model ----
(***************************************************************************)
(* The connection registry and channel-multiplexing router of server.js.   *)
(*                                                                         *)
(* One action per handler of the server: the 'connection' handler, the     *)
(* per-socket 'message', 'close' and 'error' handlers, the heartbeat timer *)
(* and the POST /api/broadcast and GET /api/status routes.  Node runs      *)
(* every handler to completion, so each handler is one atomic step.        *)
(*                                                                         *)
(* Four specifications share the state: Spec runs the server's handlers    *)
(* on every frame; SpecOrder runs them on a numbered stream of `message`   *)
(* frames and records what every connection receives; SpecClient runs the  *)
(* reconnecting client of client.js; SpecSession runs that client against  *)
(* the server.                                                             *)
(*                                                                         *)
(* The ws library is the environment.  What the model takes from it:       *)
(*   - a server-side socket is OPEN when 'connection' fires;               *)
(*   - readyState is CLOSING when 'error' fires and CLOSED when 'close'    *)
(*     fires, and 'close' fires at most once per socket;                   *)
(*   - 'message' is modelled for sockets whose readyState reads OPEN;      *)
(*   - send() on a socket whose readyState reads OPEN returns normally; if *)
(*     the underlying connection has already failed (variable failed) the  *)
(*     frame never reaches the peer, and the caller is not told.           *)
(***************************************************************************)
EXTENDS Integers, Sequences, FiniteSets, TLC

\* Bound of the model: how many connections are ever accepted.
MaxConns == 2

\* JavaScript's undefined, as the value of a property an object lacks.
UNDEF == "<undefined>"

\* The default value of broadcastToChannel's excludeId (null): no identity.
NULL == 0

\* The data values the inbound frames are built from.
DataValues == {"hi"}

\* The channel names a run uses besides the pre-populated 'default': an
\* ordinary name, or the empty string.  Each run uses one of them.
OtherNames == {"gaming", ""}

\* Identities a `direct` frame may name: every identity that can be
\* assigned, and one that never is.
TargetIds == 1..(MaxConns + 1)

VARIABLES
    other,                \* the channel name this run uses besides 'default'
    connectionIdCounter,  \* server.js:16
    connections,          \* server.js:15, the Map: id -> [id, channels]
    readyState,           \* conn.ws.readyState of every socket accepted so far
    failed,               \* sockets that read OPEN but whose connection is gone
    assigned,             \* history: the identities handed out, in accept order
    out,                  \* the ws.send calls of the last handler, in call order
    last,                 \* the last handler run and its input
    crashed,              \* an exception or 'error' event went unhandled: the process is gone
    inbox,                \* history: the channel messages each connection was sent, in order
    stamp,                \* history: how many `message` frames have been handled
    clientWs,             \* client.js: this.ws and its readyState
    reconnectAttempts,    \* client.js:11
    timerPending,         \* client.js:157, a reconnect timer is set
    delays,               \* history: the delays scheduled since the last successful open
    subscribedChannels,   \* client.js:9
    clientConn,           \* the identity the server gave the client's current socket, 0 if none
    pipe                  \* the frames the client has sent that the server has not yet handled

\* The state of the server, of the delivery history, and of the client.
serverVars == <<other, connectionIdCounter, connections, readyState, failed, assigned, out,
                last, crashed>>
orderVars == <<inbox, stamp>>
clientVars == <<clientWs, reconnectAttempts, timerPending, delays, subscribedChannels>>
sessionVars == <<clientConn, pipe>>

vars == <<serverVars, orderVars, clientVars, sessionVars>>

\* The channel names of the run.
ChannelNames == {"default", other}

-----------------------------------------------------------------------------
(* Inbound frames and JSON.parse *)

\* The objects a frame may encode; a property that is absent is not in the
\* record's domain.
Objects ==
    {[type |-> t, channel |-> c] : t \in {"subscribe", "unsubscribe"}, c \in ChannelNames}
    \cup {[type |-> "message", channel |-> c, data |-> d] : c \in ChannelNames, d \in DataValues}
    \cup {[type |-> "message", data |-> d] : d \in DataValues}
    \cup {[type |-> "direct", targetId |-> t, data |-> d] : t \in TargetIds, d \in DataValues}
    \cup {[type |-> "ping"]}
    \cup {[type |-> "foo", data |-> d] : d \in DataValues}
    \cup {[data |-> d] : d \in DataValues}

\* The JSON values a frame may encode: an object, or null.
JsonValues ==
    {[kind |-> "object", obj |-> o] : o \in Objects} \cup {[kind |-> "null"]}

\* The raw data of an inbound frame: JSON text, or text that is not JSON.
Frames ==
    {[text |-> "json", value |-> v] : v \in JsonValues} \cup {[text |-> "garbage"]}

\* JSON.parse(data): the value, or a SyntaxError.
JSONparse(data) ==
    IF data.text = "json"
    THEN [threw |-> FALSE, value |-> data.value]
    ELSE [threw |-> TRUE]

\* message.<field>: undefined when the object lacks the property; reading a
\* property of null throws (see ThrowsOnType).
Get(message, field) ==
    IF message.kind = "object" /\ field \in DOMAIN message.obj
    THEN message.obj[field]
    ELSE UNDEF

\* `message.type` on null is a TypeError.
ThrowsOnType(message) == message.kind = "null"

\* `message.channel || 'default'`: every falsy value (undefined, the empty
\* string) gives 'default'.
OrDefault(c) == IF c = UNDEF \/ c = "" THEN "default" ELSE c

-----------------------------------------------------------------------------
(* The transport *)

\* conn.ws.readyState === WebSocket.OPEN
IsOpen(id) == id \in DOMAIN readyState /\ readyState[id] = "OPEN"

\* A frame handed to send() reaches the peer.
Writable(id) == IsOpen(id) /\ id \notin failed

\* ws.send(JSON.stringify(fields)) on socket `to`: one entry of out.
Send(to, fields) == [to |-> to, delivered |-> Writable(to)] @@ fields

\* The keys of the Map in iteration (insertion) order: identities are
\* inserted in increasing order and never inserted twice.
RECURSIVE KeysInOrder(_)
KeysInOrder(S) ==
    IF S = {} THEN <<>>
    ELSE LET m == CHOOSE x \in S : \A y \in S : x <= y
         IN <<m>> \o KeysInOrder(S \ {m})

\* The sends of one forEach over the Map: fields to every key, in order,
\* that is in `passing` (the keys the body's if lets through).
RECURSIVE ForEachSend(_, _, _)
ForEachSend(keys, passing, fields) ==
    IF keys = <<>> THEN <<>>
    ELSE (IF Head(keys) \in passing THEN <<Send(Head(keys), fields)>> ELSE <<>>)
         \o ForEachSend(Tail(keys), passing, fields)

\* The registered connections whose socket reads OPEN.
OpenConnections == {id \in DOMAIN connections : IsOpen(id)}

-----------------------------------------------------------------------------
(* server.js *)

TypeOK ==
    /\ other \in OtherNames
    /\ connectionIdCounter \in 0..MaxConns
    /\ DOMAIN connections \subseteq 1..MaxConns
    /\ \A id \in DOMAIN connections :
          /\ connections[id].id = id
          /\ connections[id].channels \subseteq ChannelNames
    /\ DOMAIN readyState = 1..connectionIdCounter
    /\ \A id \in DOMAIN readyState : readyState[id] \in {"OPEN", "CLOSING", "CLOSED"}
    /\ failed \subseteq DOMAIN readyState

Init ==
    /\ other \in OtherNames
    /\ connectionIdCounter = 0
    /\ connections = <<>>
    /\ readyState = <<>>
    /\ failed = {}
    /\ assigned = <<>>
    /\ out = <<>>
    /\ last = [kind |-> "init"]
    /\ crashed = FALSE
    /\ inbox = <<>>
    /\ stamp = 0
    /\ clientWs = "null"
    /\ reconnectAttempts = 0
    /\ timerPending = FALSE
    /\ delays = <<>>
    /\ subscribedChannels = {"default"}
    /\ clientConn = 0
    /\ pipe = <<>>

\* Mutant of NextConnectionId: the identity is the registry's size plus one.
NextConnectionIdFromSize == Cardinality(DOMAIN connections) + 1

\* const connectionId = ++connectionIdCounter
NextConnectionId == connectionIdCounter + 1

\* The record stored for a new connection.
ConnectionInfo(connectionId) == [id |-> connectionId, channels |-> {"default"}]

\* Mutant of Qualifies: the channel set is not looked at.
QualifiesUnsubscribed(id, channel, excludeId) ==
    /\ connections[id].id # excludeId
    /\ IsOpen(id)

\* A channel fan-out passes a record that is not excluded, is subscribed and
\* reads OPEN.
Qualifies(id, channel, excludeId) ==
    /\ connections[id].id # excludeId
    /\ channel \in connections[id].channels
    /\ IsOpen(id)

\* function broadcastToChannel(channel, message, excludeId = null): the sends
\* it makes and the count it returns.
broadcastToChannel(channel, message, excludeId) ==
    LET passing == {id \in DOMAIN connections : Qualifies(id, channel, excludeId)}
        sends == ForEachSend(KeysInOrder(DOMAIN connections), passing, message)
    IN [out |-> sends, sent |-> Len(sends)]

\* wss.on('connection')
OnConnection ==
    /\ connectionIdCounter < MaxConns
    /\ LET connectionId == NextConnectionId IN
         /\ connectionIdCounter' = connectionId
         /\ connections' = (connectionId :> ConnectionInfo(connectionId)) @@ connections
         /\ readyState' = (connectionId :> "OPEN") @@ readyState
         /\ assigned' = Append(assigned, connectionId)
         /\ out' = <<[to |-> connectionId, delivered |-> TRUE,
                      type |-> "connection", connectionId |-> connectionId]>>
         /\ last' = [kind |-> "connection", id |-> connectionId]
    /\ UNCHANGED <<other, failed>>

\* case 'subscribe': conn.channels.add(message.channel)
ChannelsAdd(channels, channel) == channels \cup {channel}

\* Mutant of ChannelsDelete: an absent channel is added (a toggle).
ChannelsDeleteToggle(channels, channel) ==
    IF channel \in channels THEN channels \ {channel} ELSE channels \cup {channel}

\* Mutant of ChannelsDelete: the channel stays in the set.
ChannelsDeleteNothing(channels, channel) == channels

\* case 'unsubscribe': connUnsub.channels.delete(message.channel)
ChannelsDelete(channels, channel) == channels \ {channel}

\* case 'message': the excludeId the handler passes to broadcastToChannel
\* (none: "Don't exclude sender - they should see their own messages").
ExcludeOnMessage(connectionId) == NULL

\* Mutant of DirectReachable: the target must also hold the channel 'default'.
DirectReachableByChannel(message) ==
    /\ message.kind = "object"
    /\ "targetId" \in DOMAIN message.obj
    /\ message.obj.targetId \in DOMAIN connections
    /\ IsOpen(connections[message.obj.targetId].id)
    /\ "default" \in connections[message.obj.targetId].channels

\* Mutant of DirectReachable: the target's readyState is not looked at.
DirectReachableUnchecked(message) ==
    /\ message.kind = "object"
    /\ "targetId" \in DOMAIN message.obj
    /\ message.obj.targetId \in DOMAIN connections

\* case 'direct': connections.get(message.targetId) is a record whose socket
\* reads OPEN.
DirectReachable(message) ==
    /\ message.kind = "object"
    /\ "targetId" \in DOMAIN message.obj
    /\ message.obj.targetId \in DOMAIN connections
    /\ IsOpen(connections[message.obj.targetId].id)

\* Mutant of CatchSends: the error goes to every registered connection.
CatchSendsToAll(connectionId) ==
    ForEachSend(KeysInOrder(DOMAIN connections), OpenConnections,
                [type |-> "error", message |-> "Invalid message format"])

\* catch (error): the sends of the catch block.
CatchSends(connectionId) ==
    <<Send(connectionId, [type |-> "error", message |-> "Invalid message format"])>>

\* The switch of the 'message' handler on a parsed message whose type could
\* be read: the registry, the sends and the fan-out count that result.
Dispatch(connectionId, message) ==
    LET type == Get(message, "type")
        same == [conns |-> connections, out |-> <<>>, sent |-> 0]
    IN
    CASE type = "subscribe" ->
           IF connectionId \in DOMAIN connections
           THEN [same EXCEPT
                   !.conns = [connections EXCEPT ![connectionId].channels =
                                 ChannelsAdd(@, Get(message, "channel"))],
                   !.out = <<Send(connectionId, [type |-> "subscribed",
                                                 channel |-> Get(message, "channel")])>>]
           ELSE same
      [] type = "unsubscribe" ->
           IF connectionId \in DOMAIN connections
           THEN [same EXCEPT
                   !.conns = [connections EXCEPT ![connectionId].channels =
                                 ChannelsDelete(@, Get(message, "channel"))],
                   !.out = <<Send(connectionId, [type |-> "unsubscribed",
                                                 channel |-> Get(message, "channel")])>>]
           ELSE same
      [] type = "message" ->
           LET channel == OrDefault(Get(message, "channel"))
               r == broadcastToChannel(channel,
                        [type |-> "channel_message", channel |-> channel,
                         connectionId |-> connectionId, data |-> Get(message, "data")],
                        ExcludeOnMessage(connectionId))
           IN [same EXCEPT !.out = r.out, !.sent = r.sent]
      [] type = "direct" ->
           IF DirectReachable(message)
           THEN [same EXCEPT
                   !.out = <<Send(message.obj.targetId,
                                  [type |-> "direct_message", from |-> connectionId,
                                   data |-> Get(message, "data")])>>]
           ELSE same
      [] type = "ping" ->
           [same EXCEPT !.out = <<Send(connectionId, [type |-> "pong"])>>]
      [] OTHER ->
           [same EXCEPT !.out = <<Send(connectionId, [type |-> "echo",
                                                      original |-> message])>>]

\* Mutant of HandleMessage: a `message` frame also subscribes its sender to
\* the channel it names.
HandleMessageAutoSubscribe(connectionId, data) ==
    LET parsed == JSONparse(data) IN
    IF parsed.threw \/ ThrowsOnType(parsed.value)
    THEN [conns |-> connections, out |-> CatchSends(connectionId), sent |-> 0]
    ELSE LET r == Dispatch(connectionId, parsed.value) IN
         IF Get(parsed.value, "type") = "message" /\ connectionId \in DOMAIN connections
         THEN [r EXCEPT !.conns = [connections EXCEPT ![connectionId].channels =
                           @ \cup {OrDefault(Get(parsed.value, "channel"))}]]
         ELSE r

\* ws.on('message'): try { JSON.parse; switch } catch { send error }
HandleMessage(connectionId, data) ==
    LET parsed == JSONparse(data) IN
    IF parsed.threw \/ ThrowsOnType(parsed.value)
    THEN [conns |-> connections, out |-> CatchSends(connectionId), sent |-> 0]
    ELSE Dispatch(connectionId, parsed.value)

OnMessage(connectionId, data) ==
    /\ IsOpen(connectionId)
    /\ LET r == HandleMessage(connectionId, data) IN
         /\ connections' = r.conns
         /\ out' = r.out
         /\ last' = [kind |-> "message", id |-> connectionId, data |-> data,
                     sent |-> r.sent]
    /\ UNCHANGED <<other, connectionIdCounter, readyState, failed, assigned>>

\* Mutant of MapDelete: the record stays in the Map.
MapDeleteNothing(connectionId) == connections

\* connections.delete(connectionId)
MapDelete(connectionId) ==
    [id \in DOMAIN connections \ {connectionId} |-> connections[id]]

\* ws.on('close'): the socket is CLOSED when the handler runs.
OnClose(connectionId) ==
    /\ connectionId \in DOMAIN readyState
    /\ readyState[connectionId] # "CLOSED"
    /\ connections' = MapDelete(connectionId)
    /\ readyState' = [readyState EXCEPT ![connectionId] = "CLOSED"]
    /\ failed' = failed \ {connectionId}
    /\ out' = <<>>
    /\ last' = [kind |-> "close", id |-> connectionId]
    /\ UNCHANGED <<other, connectionIdCounter, assigned>>

\* The registry after the 'error' handler, which only logs.
AfterError(connectionId) == connections

\* ws.on('error'): the socket is CLOSING when the handler runs.
OnError(connectionId) ==
    /\ IsOpen(connectionId)
    /\ connections' = AfterError(connectionId)
    /\ readyState' = [readyState EXCEPT ![connectionId] = "CLOSING"]
    /\ failed' = failed \ {connectionId}
    /\ out' = <<>>
    /\ last' = [kind |-> "error", id |-> connectionId]
    /\ UNCHANGED <<other, connectionIdCounter, assigned>>

\* The environment: the connection under an OPEN socket fails, and the
\* socket has not reported it yet.
SocketFails(connectionId) ==
    /\ IsOpen(connectionId)
    /\ connectionId \notin failed
    /\ failed' = failed \cup {connectionId}
    /\ out' = <<>>
    /\ last' = [kind |-> "fail", id |-> connectionId]
    /\ UNCHANGED <<other, connectionIdCounter, connections, readyState, assigned>>

\* setInterval(..., 30000): the heartbeat tick.
Heartbeat ==
    /\ out' = ForEachSend(KeysInOrder(DOMAIN connections), OpenConnections,
                       [type |-> "heartbeat"])
    /\ last' = [kind |-> "heartbeat"]
    /\ UNCHANGED <<other, connectionIdCounter, connections, readyState, failed, assigned>>

\* app.post('/api/broadcast'): `channel` is UNDEF when the body has none.
ApiBroadcast(message, channel) ==
    LET ch == IF channel = UNDEF THEN "default" ELSE channel
        sends == ForEachSend(KeysInOrder(DOMAIN connections), OpenConnections,
                             [type |-> "broadcast", channel |-> ch, message |-> message])
    IN /\ out' = sends
       /\ last' = [kind |-> "broadcast", channel |-> channel, message |-> message,
                   recipients |-> Len(sends)]
       /\ UNCHANGED <<other, connectionIdCounter, connections, readyState, failed, assigned>>

\* app.get('/api/status'): the connection count it reports.
ApiStatus ==
    /\ out' = <<>>
    /\ last' = [kind |-> "status", connections |-> Cardinality(DOMAIN connections)]
    /\ UNCHANGED <<other, connectionIdCounter, connections, readyState, failed, assigned>>

\* Mutant of TryCatches: the handler has no try/catch.
TryCatchesNothing == FALSE

\* try { ... } catch (error) { ... } around the whole 'message' handler: an
\* exception thrown in the try block does not leave the handler.
TryCatches == TRUE

\* The 'message' handler lets an exception escape on this frame.
Escapes(data) ==
    LET parsed == JSONparse(data) IN
    (parsed.threw \/ ThrowsOnType(parsed.value)) /\ ~TryCatches

\* ws.on('error', ...) is registered on every socket: an 'error' event that
\* has a listener is not thrown by the emitter.
ErrorListener == TRUE

\* The server alone: every step is one handler, run while the process lives.
Next ==
    \/ ~crashed /\ OnConnection /\ UNCHANGED <<crashed, orderVars, clientVars, sessionVars>>
    \/ \E id \in 1..MaxConns, data \in Frames :
          /\ ~crashed
          /\ OnMessage(id, data)
          /\ crashed' = Escapes(data)
          /\ UNCHANGED <<orderVars, clientVars, sessionVars>>
    \/ \E id \in 1..MaxConns :
          ~crashed /\ OnClose(id) /\ UNCHANGED <<crashed, orderVars, clientVars, sessionVars>>
    \/ \E id \in 1..MaxConns :
          /\ ~crashed
          /\ OnError(id)
          /\ crashed' = ~ErrorListener
          /\ UNCHANGED <<orderVars, clientVars, sessionVars>>
    \/ \E id \in 1..MaxConns :
          ~crashed /\ SocketFails(id) /\ UNCHANGED <<crashed, orderVars, clientVars, sessionVars>>
    \/ ~crashed /\ Heartbeat /\ UNCHANGED <<crashed, orderVars, clientVars, sessionVars>>
    \/ \E m \in DataValues, c \in {other, UNDEF} :
          ~crashed /\ ApiBroadcast(m, c) /\ UNCHANGED <<crashed, orderVars, clientVars, sessionVars>>
    \/ ~crashed /\ ApiStatus /\ UNCHANGED <<crashed, orderVars, clientVars, sessionVars>>

Spec == Init /\ [][Next]_vars

-----------------------------------------------------------------------------
(* What the last step was, for the properties below *)

\* The last handler run was the 'message' handler.
LastIsMessage == last.kind = "message"

\* The frame of the last 'message' handler decoded to an object.
LastIsObject ==
    /\ LastIsMessage
    /\ ~JSONparse(last.data).threw
    /\ JSONparse(last.data).value.kind = "object"

\* The object the last frame decoded to.
LastObj == JSONparse(last.data).value.obj

\* The last frame decoded to an object whose type is t.
LastHasType(t) == LastIsObject /\ "type" \in DOMAIN LastObj /\ LastObj.type = t

\* The channel a `message` frame is for: its channel field, 'default' when
\* it has none.
LastChannel == IF "channel" \in DOMAIN LastObj THEN LastObj.channel ELSE "default"

\* The sends of the last step that went to id.
OutTo(id) == SelectSeq(out, LAMBDA e : e.to = id)

KnownTypes == {"subscribe", "unsubscribe", "message", "direct", "ping"}

-----------------------------------------------------------------------------
(* C1 *)

\* C1: the identities assigned to connections are pairwise distinct and
\* strictly increasing in accept order, whatever accepts, messages and closes
\* came between; an identity is never assigned again after its record was
\* removed (every registered record and every socket carries an identity
\* that was assigned exactly once).
C1_IdentitiesStrictlyIncrease ==
    /\ \A i, j \in 1..Len(assigned) : i < j => assigned[i] < assigned[j]
    /\ \A id \in DOMAIN connections :
          Cardinality({i \in 1..Len(assigned) : assigned[i] = connections[id].id}) = 1
    /\ \A id \in DOMAIN readyState :
          Cardinality({i \in 1..Len(assigned) : assigned[i] = id}) = 1

\* C1 witness: a connection was accepted after the first one was removed.
C1_Witness ==
    /\ last.kind = "connection"
    /\ Len(assigned) = 2
    /\ readyState[1] = "CLOSED"
    /\ 1 \notin DOMAIN connections

-----------------------------------------------------------------------------
(* C2 *)

\* C2: when the last step handled a `message` frame for channel c, every
\* registered connection that holds c in its channel set and whose transport
\* is open was sent exactly one channel_message, carrying channel c, the
\* sender's identity and the sent data; the sender itself included.
C2_SubscriberGetsChannelMessage ==
    LastHasType("message") =>
       \A r \in DOMAIN connections :
          (LastChannel \in connections[r].channels /\ Writable(r)) =>
             OutTo(r) = <<[to |-> r, delivered |-> TRUE, type |-> "channel_message",
                           channel |-> LastChannel, connectionId |-> last.id,
                           data |-> Get(JSONparse(last.data).value, "data")]>>

-----------------------------------------------------------------------------
(* C3 *)

\* The step handled r's frame of type t for channel c.
StepIsSubscription(t, r, c) ==
    /\ last'.kind = "message"
    /\ last'.id = r
    /\ ~JSONparse(last'.data).threw
    /\ JSONparse(last'.data).value.kind = "object"
    /\ JSONparse(last'.data).value.obj \in
          {[type |-> t, channel |-> c]}

\* C3: once a connection's unsubscribe for channel c has been processed, c is
\* out of its channel set; c comes back into the set only by that
\* connection's own subscribe for c; and no step sends a channel_message for
\* a channel to a connection whose set does not hold it.  So between an
\* unsubscribe and the next subscribe no channel_message for c reaches the
\* connection, whoever sends it.
C3_NoChannelMessageAfterUnsubscribe ==
    [][/\ \A r \in DOMAIN connections : \A c \in ChannelNames :
            StepIsSubscription("unsubscribe", r, c) =>
               r \in DOMAIN connections' /\ c \notin connections'[r].channels
       /\ \A r \in DOMAIN connections \cap DOMAIN connections' : \A c \in ChannelNames :
            (c \notin connections[r].channels /\ c \in connections'[r].channels) =>
               StepIsSubscription("subscribe", r, c)
       /\ \A k \in 1..Len(out') :
            out'[k].type = "channel_message" =>
               /\ out'[k].to \in DOMAIN connections'
               /\ out'[k].channel \in connections'[out'[k].to].channels
      ]_vars

\* C3 witness: a channel_message for 'default' was just fanned out while
\* connection 2, open and registered, had left 'default': nothing was sent
\* to it.
C3_Witness ==
    /\ LastHasType("message")
    /\ LastChannel = "default"
    /\ out # <<>>
    /\ 2 \in DOMAIN connections
    /\ Writable(2)
    /\ "default" \notin connections[2].channels
    /\ OutTo(2) = <<>>

-----------------------------------------------------------------------------
(* C4 *)

\* C4: a connection whose close event has been processed is not found in the
\* registry, and nothing (channel message, direct message, administrative
\* broadcast, heartbeat) is sent to it by any later step.
C4_ClosedIsGoneAndSilent ==
    \A id \in DOMAIN readyState :
       readyState[id] = "CLOSED" =>
          /\ id \notin DOMAIN connections
          /\ OutTo(id) = <<>>

\* C4 witness: after connection 1 was closed, a heartbeat tick reached
\* another connection.
C4_Witness ==
    /\ last.kind = "heartbeat"
    /\ 1 \in DOMAIN readyState
    /\ readyState[1] = "CLOSED"
    /\ out # <<>>

-----------------------------------------------------------------------------
(* C5 *)

\* C5: a `direct` frame from a naming a registered target b whose socket is
\* open makes exactly one send: a direct_message to b carrying a and the
\* data, whatever b's channel set; nothing goes to anyone else.
C5_DirectReachesOnlyTarget ==
    (/\ LastHasType("direct")
     /\ LastObj.targetId \in DOMAIN connections
     /\ IsOpen(LastObj.targetId)) =>
        out = <<[to |-> LastObj.targetId, delivered |-> Writable(LastObj.targetId),
                 type |-> "direct_message", from |-> last.id,
                 data |-> LastObj.data]>>

\* C5 witness: connection 1 sent a direct message to connection 2, which
\* holds no channel at all, and it was delivered.
C5_Witness ==
    /\ LastHasType("direct")
    /\ last.id = 1
    /\ LastObj.targetId = 2
    /\ 2 \in DOMAIN connections
    /\ connections[2].channels = {}
    /\ Len(out) = 1
    /\ out[1].to = 2
    /\ out[1].delivered

-----------------------------------------------------------------------------
(* C6 *)

\* The step handled a `direct` frame whose target is not in the registry or
\* whose socket is not open.
StepIsUnreachableDirect ==
    /\ last'.kind = "message"
    /\ ~JSONparse(last'.data).threw
    /\ JSONparse(last'.data).value.kind = "object"
    /\ LET o == JSONparse(last'.data).value.obj IN
         /\ "type" \in DOMAIN o
         /\ o.type = "direct"
         /\ \/ o.targetId \notin DOMAIN connections
            \/ ~IsOpen(o.targetId)

\* C6: a `direct` frame whose target is not registered, or is registered with
\* a socket that is not open, makes no send at all (none to the sender, no
\* error event) and leaves the registry and every channel set as they were.
C6_UnreachableDirectIsDropped ==
    [][StepIsUnreachableDirect =>
          /\ out' = <<>>
          /\ connections' = connections
          /\ readyState' = readyState]_vars

\* C6 witness: a direct message named an identity that was never assigned.
C6_Witness ==
    /\ LastHasType("direct")
    /\ LastObj.targetId > connectionIdCounter
    /\ out = <<>>

\* C6, second case reached: the target is registered but its socket is
\* closing.
C6_WitnessClosing ==
    /\ LastHasType("direct")
    /\ LastObj.targetId \in DOMAIN connections
    /\ readyState[LastObj.targetId] = "CLOSING"
    /\ out = <<>>

-----------------------------------------------------------------------------
(* C7 *)

\* The connections a fan-out for the last frame's channel passes.
LastRecipients ==
    {r \in DOMAIN connections :
        OrDefault(LastChannel) \in connections[r].channels /\ IsOpen(r)}

\* C7: when the write to a recipient fails during a channel fan-out, every
\* other recipient still gets its copy, the recipient whose write failed is
\* not counted in the count the fan-out returns, and the sender is sent no
\* error event.
C7_FailedWriteIsIsolatedAndNotCounted ==
    (LastHasType("message") /\ LastRecipients \cap failed # {}) =>
       /\ \A r \in LastRecipients \ failed :
             /\ Len(OutTo(r)) = 1
             /\ OutTo(r)[1].delivered
       /\ last.sent = Cardinality(LastRecipients \ failed)
       /\ \A k \in 1..Len(out) : out[k].type # "error"

-----------------------------------------------------------------------------
(* C8 *)

\* C8: when the transport of an open connection has reported closure or an
\* error, the handler of that signal has removed the connection's record
\* from the registry.
C8_CloseOrErrorRemovesRecord ==
    last.kind \in {"close", "error"} => last.id \notin DOMAIN connections

-----------------------------------------------------------------------------
(* C9 *)

\* The step handled a frame from `id` that failed to decode.
StepIsMalformed(id) ==
    /\ last'.kind = "message"
    /\ last'.id = id
    /\ JSONparse(last'.data).threw

\* C9: a frame that fails to decode makes exactly one send, an error event
\* to the connection the frame came from and to no other, and leaves that
\* connection registered with its channel set, and every other record, as
\* they were.
C9_MalformedYieldsOneError ==
    [][\A id \in DOMAIN connections :
          StepIsMalformed(id) =>
             /\ out' = <<[to |-> id, delivered |-> Writable(id), type |-> "error",
                          message |-> "Invalid message format"]>>
             /\ connections' = connections
             /\ readyState' = readyState]_vars

\* C9 witness: with two connections registered and open, connection 2 sent a
\* frame that is not JSON and was answered with one error event.
C9_Witness ==
    /\ LastIsMessage
    /\ last.id = 2
    /\ JSONparse(last.data).threw
    /\ DOMAIN connections = {1, 2}
    /\ IsOpen(1)
    /\ Len(out) = 1
    /\ out[1].type = "error"
    /\ out[1].to = 2

-----------------------------------------------------------------------------
(* C10 *)

\* C10: every frame that decodes and whose type is none of subscribe,
\* unsubscribe, message, direct, ping (a value without a type included) is
\* answered with exactly one send, an echo event to the sender carrying the
\* decoded payload, and never with an error event.
C10_UnknownTypeIsEchoed ==
    (/\ LastIsMessage
     /\ ~JSONparse(last.data).threw
     /\ Get(JSONparse(last.data).value, "type") \notin KnownTypes) =>
        out = <<[to |-> last.id, delivered |-> Writable(last.id), type |-> "echo",
                 original |-> JSONparse(last.data).value]>>

-----------------------------------------------------------------------------
(* C11 *)

\* The frame {type: 'unsubscribe', channel: c}.
UnsubscribeFrame(c) ==
    [text |-> "json",
     value |-> [kind |-> "object", obj |-> [type |-> "unsubscribe", channel |-> c]]]

\* C11: in every reachable state, handling an unsubscribe for a channel that
\* is not in the connection's set leaves every record as it is and answers
\* with the acknowledgement alone (no error); and deleting an identity that
\* is not in the registry leaves the registry as it is.
C11_UnsubscribeAndRemoveAreIdempotent ==
    /\ \A r \in OpenConnections : \A c \in ChannelNames :
          c \notin connections[r].channels =>
             LET h == HandleMessage(r, UnsubscribeFrame(c)) IN
               /\ h.conns = connections
               /\ h.out = <<[to |-> r, delivered |-> Writable(r),
                             type |-> "unsubscribed", channel |-> c]>>
               /\ ~Escapes(UnsubscribeFrame(c))
    /\ \A id \in TargetIds :
          id \notin DOMAIN connections => MapDelete(id) = connections

\* C11 witness: connection 1 has been removed, connection 2 is registered,
\* and connection 2's unsubscribe for a channel has just been handled: the
\* channel is out of its set, and the same frame may come again.
C11_Witness ==
    /\ LastHasType("unsubscribe")
    /\ last.id = 2
    /\ 2 \in OpenConnections
    /\ LastObj.channel \notin connections[2].channels
    /\ readyState[1] = "CLOSED"

-----------------------------------------------------------------------------
(* C12 *)

\* C12: POST /api/broadcast with a channel c sends the broadcast event to
\* the clients subscribed to c, and the recipients it returns is the number
\* of those clients.
C12_ApiBroadcastIsPerChannel ==
    (last.kind = "broadcast" /\ last.channel # UNDEF) =>
       LET subscribers == {r \in OpenConnections : last.channel \in connections[r].channels}
       IN /\ {out[k].to : k \in 1..Len(out)} = subscribers
          /\ last.recipients = Cardinality(subscribers)

-----------------------------------------------------------------------------
(* C13 *)

\* The connections the last step's sends were delivered to.
DeliveredTo == {out[k].to : k \in {n \in 1..Len(out) : out[n].delivered}}

\* C13: the administrative broadcast delivers exactly one broadcast event
\* to every registered connection whose transport is open, whatever its
\* channel set, and to no other; the recipients it returns is the number of
\* connections it was delivered to, 0 when no connection is live.
C13_ApiBroadcastReachesEveryOpen ==
    last.kind = "broadcast" =>
       /\ \A r \in DOMAIN connections :
             Writable(r) =>
                OutTo(r) = <<[to |-> r, delivered |-> TRUE, type |-> "broadcast",
                              channel |-> IF last.channel = UNDEF THEN "default"
                                          ELSE last.channel,
                              message |-> last.message]>>
       /\ DeliveredTo = {r \in DOMAIN connections : Writable(r)}
       /\ last.recipients = Cardinality(DeliveredTo)

\* What holds of the administrative broadcast: one send to every registered
\* connection whose socket reads OPEN, whatever its channel set, none to any
\* other, and recipients is the number of sends.
ApiBroadcastSendsToEveryOpen ==
    last.kind = "broadcast" =>
       /\ \A r \in DOMAIN connections :
             IsOpen(r) =>
                OutTo(r) = <<[to |-> r, delivered |-> Writable(r), type |-> "broadcast",
                              channel |-> IF last.channel = UNDEF THEN "default"
                                          ELSE last.channel,
                              message |-> last.message]>>
       /\ \A k \in 1..Len(out) : out[k].to \in DOMAIN connections /\ IsOpen(out[k].to)
       /\ last.recipients = Len(out)
       /\ DeliveredTo = {r \in DOMAIN connections : Writable(r)}

-----------------------------------------------------------------------------
(* C17 *)

\* C17: the connection count the status query returns is the number of
\* connections whose transport is open; a record whose transport is no
\* longer open is not counted.
C17_StatusCountsOpenTransports ==
    last.kind = "status" =>
       last.connections = Cardinality({id \in DOMAIN readyState : IsOpen(id)})

-----------------------------------------------------------------------------
(* C19 *)

\* C19: in every reachable state, for every channel c and every excludeId,
\* broadcastToChannel sends the message, one copy each and in no other form,
\* to exactly the registered records whose socket is open, whose id is not
\* excludeId and whose channel set holds c, and returns the size of that set;
\* and the fan-out of the last `message` frame went to exactly that set.
C19_FanOutIsExactlyTheSubscribers ==
    /\ \A c \in ChannelNames : \A ex \in 0..MaxConns :
          LET m == [type |-> "channel_message", channel |-> c, connectionId |-> 1,
                    data |-> "hi"]
              r == broadcastToChannel(c, m, ex)
              q == {id \in DOMAIN connections :
                      IsOpen(id) /\ id # ex /\ c \in connections[id].channels}
          IN /\ {r.out[k].to : k \in 1..Len(r.out)} = q
             /\ Len(r.out) = Cardinality(q)
             /\ r.sent = Cardinality(q)
             /\ \A k \in 1..Len(r.out) :
                   r.out[k] = [to |-> r.out[k].to, delivered |-> Writable(r.out[k].to)] @@ m
    /\ LastHasType("message") =>
          LET q == {id \in DOMAIN connections :
                      IsOpen(id) /\ OrDefault(LastChannel) \in connections[id].channels}
          IN /\ {out[k].to : k \in 1..Len(out)} = q
             /\ Len(out) = Cardinality(q)
             /\ last.sent = Cardinality(q)

\* C19 witness: a fan-out for a channel that connection 1 holds and
\* connection 2, registered and open, does not: one send, to connection 1.
C19_Witness ==
    /\ LastHasType("message")
    /\ DOMAIN connections = {1, 2}
    /\ IsOpen(1) /\ IsOpen(2)
    /\ OrDefault(LastChannel) \in connections[1].channels
    /\ OrDefault(LastChannel) \notin connections[2].channels
    /\ Len(out) = 1
    /\ out[1].to = 1
    /\ last.sent = 1

-----------------------------------------------------------------------------
(* C20 *)

\* C20: a record's channel set changes only in a step that handles a
\* subscribe or unsubscribe frame of that same connection; every other step
\* (message, direct, ping, unknown and malformed frames, heartbeats,
\* broadcasts, status queries, any frame of another connection) leaves every
\* channel set as it is; and the step that handles a subscribe or
\* unsubscribe makes one send, the acknowledgement to the requesting
\* connection.
C20_OnlySubscriptionsChangeChannels ==
    [][LET changed == {r \in DOMAIN connections \cap DOMAIN connections' :
                         connections'[r].channels # connections[r].channels}
           subscription ==
              /\ last'.kind = "message"
              /\ ~JSONparse(last'.data).threw
              /\ JSONparse(last'.data).value.kind = "object"
              /\ DOMAIN JSONparse(last'.data).value.obj = {"type", "channel"}
              /\ JSONparse(last'.data).value.obj.type \in {"subscribe", "unsubscribe"}
           obj == JSONparse(last'.data).value.obj
       IN /\ changed # {} => (subscription /\ changed = {last'.id})
          /\ subscription =>
                out' = <<[to |-> last'.id, delivered |-> Writable(last'.id),
                          type |-> IF obj.type = "subscribe" THEN "subscribed"
                                   ELSE "unsubscribed",
                          channel |-> obj.channel]>>
      ]_vars

\* C20 witness: connection 2 subscribed to the run's other channel and was
\* acknowledged alone, while connection 1 still holds only 'default'.
C20_Witness ==
    /\ LastHasType("subscribe")
    /\ last.id = 2
    /\ DOMAIN connections = {1, 2}
    /\ connections[1].channels = {"default"}
    /\ connections[2].channels = {"default", other}
    /\ Len(out) = 1
    /\ out[1].to = 2

-----------------------------------------------------------------------------
(* C16 *)

\* The frame {type: 'ping'}.
PingFrame == [text |-> "json", value |-> [kind |-> "object", obj |-> [type |-> "ping"]]]

C16_WitnessMalformed ==
    /\ LastIsMessage
    /\ last.id = 1
    /\ JSONparse(last.data).threw
    /\ Len(out) = 1 /\ ~out[1].delivered
    /\ 2 \in OpenConnections
    /\ ~crashed

-----------------------------------------------------------------------------
(* The client, src/client.js: one MultiplexedWebSocketClient.  connect() is
   called once by its user and afterwards by the reconnect timer only, so the
   client has one socket at a time.  delays is the sequence of delays it has
   scheduled since its last 'open'. *)

\* this.maxReconnectAttempts = 5
maxReconnectAttempts == 5

\* Mutant of ReconnectDelay: the delay is not capped.
ReconnectDelayUncapped(attempts) == 1000 * 2^attempts

\* Math.min(1000 * Math.pow(2, this.reconnectAttempts), 10000)
ReconnectDelay(attempts) ==
    IF 1000 * 2^attempts < 10000 THEN 1000 * 2^attempts ELSE 10000

\* connect(): this.ws = new WebSocket(url), with its listeners.
connect == clientWs' = "CONNECTING"

\* The user's first connect().
ClientConnect ==
    /\ clientWs = "null"
    /\ connect
    /\ UNCHANGED <<reconnectAttempts, timerPending, delays, subscribedChannels>>

\* ws.on('open'): this.reconnectAttempts = 0
ClientOnOpen ==
    /\ clientWs = "CONNECTING"
    /\ clientWs' = "OPEN"
    /\ reconnectAttempts' = 0
    /\ delays' = <<>>
    /\ UNCHANGED <<timerPending, subscribedChannels>>

\* attemptReconnect()
attemptReconnect ==
    IF reconnectAttempts < maxReconnectAttempts
    THEN /\ reconnectAttempts' = reconnectAttempts + 1
         /\ delays' = Append(delays, ReconnectDelay(reconnectAttempts + 1))
         /\ timerPending' = TRUE
    ELSE UNCHANGED <<reconnectAttempts, delays, timerPending>>

\* ws.on('close'): the handshake failed, the server or the network closed the
\* connection, or disconnect() closed it.
ClientOnClose ==
    /\ clientWs \in {"CONNECTING", "OPEN", "CLOSING"}
    /\ clientWs' = "CLOSED"
    /\ attemptReconnect
    /\ UNCHANGED subscribedChannels

\* The setTimeout callback of attemptReconnect: this.connect()
ClientTimerFires ==
    /\ timerPending
    /\ timerPending' = FALSE
    /\ connect
    /\ UNCHANGED <<reconnectAttempts, delays, subscribedChannels>>

\* disconnect(): if (this.ws) this.ws.close()
ClientDisconnect ==
    /\ clientWs \in {"CONNECTING", "OPEN"}
    /\ clientWs' = "CLOSING"
    /\ UNCHANGED <<reconnectAttempts, timerPending, delays, subscribedChannels>>

\* subscribe(channel): only with an open socket.
ClientSubscribe(channel) ==
    /\ clientWs = "OPEN"
    /\ subscribedChannels' = subscribedChannels \cup {channel}
    /\ UNCHANGED <<clientWs, reconnectAttempts, timerPending, delays>>

\* unsubscribe(channel): only with an open socket.
ClientUnsubscribe(channel) ==
    /\ clientWs = "OPEN"
    /\ subscribedChannels' = subscribedChannels \ {channel}
    /\ UNCHANGED <<clientWs, reconnectAttempts, timerPending, delays>>

NextClient ==
    \/ ClientConnect /\ UNCHANGED <<serverVars, orderVars, sessionVars>>
    \/ ClientOnOpen /\ UNCHANGED <<serverVars, orderVars, sessionVars>>
    \/ ClientOnClose /\ UNCHANGED <<serverVars, orderVars, sessionVars>>
    \/ ClientTimerFires /\ UNCHANGED <<serverVars, orderVars, sessionVars>>
    \/ ClientDisconnect /\ UNCHANGED <<serverVars, orderVars, sessionVars>>
    \/ \E c \in ChannelNames : ClientSubscribe(c) /\ UNCHANGED <<serverVars, orderVars, sessionVars>>
    \/ \E c \in ChannelNames : ClientUnsubscribe(c) /\ UNCHANGED <<serverVars, orderVars, sessionVars>>

SpecClient == Init /\ [][NextClient]_vars

-----------------------------------------------------------------------------
(* C18 *)

\* The step is a 'close' of the client's socket.
StepIsClientClose == clientWs # "CLOSED" /\ clientWs' = "CLOSED"

\* What C18 says of every state: the n-th delay scheduled since the last
\* open is min(1000 * 2^n, 10000), so no delay is less than the one before
\* it; at most maxReconnectAttempts reconnects are scheduled without an
\* open; a reconnect is pending only while the socket is closed.
C18_State ==
    /\ reconnectAttempts \in 0..5
    /\ Len(delays) = reconnectAttempts
    /\ \A n \in 1..Len(delays) :
          delays[n] = IF n = 1 THEN 2000 ELSE IF n = 2 THEN 4000
                      ELSE IF n = 3 THEN 8000 ELSE 10000
    /\ \A n \in 1..(Len(delays) - 1) : delays[n] <= delays[n + 1]
    /\ timerPending => clientWs = "CLOSED"

\* What C18 says of every step: a close after fewer than 5 attempts
\* schedules one reconnect and counts it; a close after 5 schedules none; a
\* reconnect is scheduled by a close only; an open resets the counter.
C18_Step ==
    /\ StepIsClientClose =>
          IF reconnectAttempts < 5
          THEN /\ ~timerPending /\ timerPending'
               /\ reconnectAttempts' = reconnectAttempts + 1
               /\ Len(delays') = Len(delays) + 1
          ELSE /\ ~timerPending'
               /\ reconnectAttempts' = reconnectAttempts
               /\ delays' = delays
    /\ (timerPending' /\ ~timerPending) => StepIsClientClose
    /\ delays' # delays /\ delays' # <<>> => StepIsClientClose
    /\ (clientWs' = "OPEN" /\ clientWs # "OPEN") => reconnectAttempts' = 0

\* C18: the client reconnects with exponential backoff: after each close it
\* schedules one reconnect, whose delay for the n-th consecutive attempt is
\* min(1000 * 2^n, 10000) ms and so never decreases within a run of
\* failures; it makes at most 5 consecutive attempts without an open, then
\* stops; an open resets the attempt counter to 0.
C18_ReconnectBacksOffAndStops == []C18_State /\ [][C18_Step]_vars

\* C18 witness: five reconnects were scheduled with delays 2000, 4000, 8000,
\* 10000, 10000, the fifth failed too, and nothing more is scheduled.
C18_Witness ==
    /\ delays = <<2000, 4000, 8000, 10000, 10000>>
    /\ reconnectAttempts = 5
    /\ clientWs = "CLOSED"
    /\ ~timerPending

\* C18, second case reached: after failed attempts the client is open again
\* and its counter is 0.
C18_WitnessReset ==
    /\ clientWs = "OPEN"
    /\ reconnectAttempts = 0
    /\ subscribedChannels = {other}

-----------------------------------------------------------------------------
(* Delivery order.  SpecOrder runs the server's handlers with a numbered
   stream of `message` frames: the k-th `message` frame handled carries
   data = k (stamp counts them), so a connection that sends m1 before m2
   sends the smaller number first; its frames are handled in the order it
   sent them, which is the transport's per-connection order.  inbox[r] is
   the numbers of the `channel_message` events connection r has received, in
   the order the server wrote them to r's socket.  Connections subscribe to
   and unsubscribe from the run's other channel; messages go to both
   channels. *)

\* How many `message` frames a run sends.
MaxSends == 2

\* The frame {type: 'message', channel: c, data: k}.
MessageFrame(c, k) ==
    [text |-> "json",
     value |-> [kind |-> "object", obj |-> [type |-> "message", channel |-> c, data |-> k]]]

\* The frame {type: 'subscribe', channel: c}.
SubscribeFrame(c) ==
    [text |-> "json",
     value |-> [kind |-> "object", obj |-> [type |-> "subscribe", channel |-> c]]]

\* The numbers of the channel messages among `events` that were written to
\* r's socket.
Received(events, r) ==
    LET mine == SelectSeq(events, LAMBDA e :
                    e.to = r /\ e.delivered /\ e.type = "channel_message")
    IN [i \in 1..Len(mine) |-> mine[i].data]

\* Mutant of Deliver: what is written last is received first.
DeliverNewestFirst(box, events) == events \o box

\* client.ws.send(messageStr): the socket carries what is written to it in
\* the order of the writes.
Deliver(box, events) == box \o events

\* Every connection receives what the step wrote to its socket.
Receive ==
    inbox' = [r \in DOMAIN readyState' |->
                Deliver(IF r \in DOMAIN inbox THEN inbox[r] ELSE <<>>, Received(out', r))]

NextOrder ==
    \/ OnConnection /\ Receive /\ UNCHANGED <<stamp, crashed, clientVars, sessionVars>>
    \/ \E id \in 1..MaxConns, c \in ChannelNames :
          /\ stamp < MaxSends
          /\ OnMessage(id, MessageFrame(c, stamp + 1))
          /\ stamp' = stamp + 1
          /\ Receive
          /\ UNCHANGED <<crashed, clientVars, sessionVars>>
    \/ \E id \in 1..MaxConns :
          /\ OnMessage(id, SubscribeFrame(other))
          /\ Receive /\ UNCHANGED <<stamp, crashed, clientVars, sessionVars>>
    \/ \E id \in 1..MaxConns :
          /\ OnMessage(id, UnsubscribeFrame(other))
          /\ Receive /\ UNCHANGED <<stamp, crashed, clientVars, sessionVars>>
    \/ \E id \in 1..MaxConns : OnClose(id) /\ Receive /\ UNCHANGED <<stamp, crashed, clientVars, sessionVars>>
    \/ Heartbeat /\ Receive /\ UNCHANGED <<stamp, crashed, clientVars, sessionVars>>
    \/ \E m \in DataValues :
          ApiBroadcast(m, UNDEF) /\ Receive /\ UNCHANGED <<stamp, crashed, clientVars, sessionVars>>

SpecOrder == Init /\ [][NextOrder]_vars

-----------------------------------------------------------------------------
(* C14 *)

\* What C14 says of every state: in every inbox the numbers increase, so
\* of two channel messages one connection sent (on one channel or on two)
\* the one sent first was received first.
C14_State ==
    \A r \in DOMAIN inbox : \A i, j \in 1..Len(inbox[r]) :
       i < j => inbox[r][i] < inbox[r][j]

\* What C14 says of every step: when the k-th `message` frame, from s for
\* channel c, is handled, every registered connection that holds c and whose
\* socket can be written to receives channel message k after everything it
\* has received before, as s's message on c; and no inbox changes in any
\* other way.
C14_Step ==
    /\ \A s \in 1..MaxConns : \A c \in ChannelNames :
          (/\ stamp' = stamp + 1
           /\ last'.kind = "message"
           /\ last'.id = s
           /\ last'.data = MessageFrame(c, stamp'))
          => \A r \in DOMAIN connections :
                (Writable(r) /\ OrDefault(c) \in connections[r].channels)
                => /\ inbox'[r] = Append(inbox[r], stamp')
                   /\ \E k \in 1..Len(out') :
                         out'[k] = [to |-> r, delivered |-> TRUE,
                                    type |-> "channel_message", channel |-> OrDefault(c),
                                    connectionId |-> s, data |-> stamp']
    /\ \A r \in DOMAIN inbox :
          \/ inbox'[r] = inbox[r]
          \/ /\ stamp' = stamp + 1
             /\ inbox'[r] = Append(inbox[r], stamp')

-----------------------------------------------------------------------------
(* C21 *)

\* C21: channel names are opaque: when the last step handled a `message`
\* frame whose channel field is c, the empty string included, its sends went
\* to the open connections that hold c and to no other, as channel messages
\* for c; only a frame with no channel field went to 'default'.
C21_ChannelNamesAreOpaque ==
    LastHasType("message") =>
       LET c == IF "channel" \in DOMAIN LastObj THEN LastObj.channel ELSE "default"
       IN /\ {out[k].to : k \in 1..Len(out)} =
                {r \in DOMAIN connections : IsOpen(r) /\ c \in connections[r].channels}
          /\ \A k \in 1..Len(out) :
                out[k].type = "channel_message" /\ out[k].channel = c

\* What holds of the routing: the frame goes to the holders of the channel
\* it names, unless it names the empty string.
RoutingIsOpaqueForNonEmptyNames ==
    (LastHasType("message") /\ LastChannel # "") => C21_ChannelNamesAreOpaque

-----------------------------------------------------------------------------
(* C23 *)

\* C23: after disconnect() the client stays disconnected: the close of a
\* socket that disconnect() closed schedules no reconnect and counts no
\* attempt, and no connection is opened while the socket is closed by it.
C23_DisconnectStaysDisconnected ==
    [][(clientWs = "CLOSING" /\ clientWs' = "CLOSED") =>
          /\ ~timerPending'
          /\ reconnectAttempts' = reconnectAttempts
          /\ delays' = delays
      ]_vars

\* What holds of disconnect(): it schedules nothing itself, and the close
\* that follows schedules a reconnect exactly when fewer than
\* maxReconnectAttempts attempts have been counted.
DisconnectReconnectsBelowMax ==
    [][/\ (clientWs' = "CLOSING" /\ clientWs # "CLOSING") =>
             UNCHANGED <<timerPending, reconnectAttempts, delays>>
       /\ (clientWs = "CLOSING" /\ clientWs' = "CLOSED") =>
             (timerPending' <=> reconnectAttempts < maxReconnectAttempts)
      ]_vars

-----------------------------------------------------------------------------
(* The client and the server together.  SpecSession runs one client of
   client.js against the server: clientConn is the identity the server gave
   the client's current socket, pipe the subscribe and unsubscribe frames the
   client has sent and the server has not yet handled.  Each side has its
   own 'close' event; the reconnect timer (2 s and more) fires after the
   server has seen the close. *)

\* How many frames the client has in flight.
MaxInFlight == 1

\* The user's first connect().
SessionConnect ==
    /\ ClientConnect
    /\ UNCHANGED <<serverVars, orderVars, sessionVars>>

\* The server accepts the client's socket: wss.on('connection').
SessionAccept ==
    /\ clientWs = "CONNECTING"
    /\ clientConn = 0
    /\ OnConnection
    /\ clientConn' = NextConnectionId
    /\ UNCHANGED <<pipe, crashed, orderVars, clientVars>>

\* The client's 'open', after the server accepted.
SessionOpen ==
    /\ clientConn # 0
    /\ ClientOnOpen
    /\ UNCHANGED <<serverVars, orderVars, sessionVars>>

\* subscribe(channel): the local set changes and the frame is sent.
SessionSubscribe(channel) ==
    /\ Len(pipe) < MaxInFlight
    /\ ClientSubscribe(channel)
    /\ pipe' = Append(pipe, SubscribeFrame(channel))
    /\ UNCHANGED <<serverVars, orderVars, clientConn>>

\* unsubscribe(channel): the local set changes and the frame is sent.
SessionUnsubscribe(channel) ==
    /\ Len(pipe) < MaxInFlight
    /\ ClientUnsubscribe(channel)
    /\ pipe' = Append(pipe, UnsubscribeFrame(channel))
    /\ UNCHANGED <<serverVars, orderVars, clientConn>>

\* The server handles the client's next frame: ws.on('message').
SessionHandle ==
    /\ pipe # <<>>
    /\ clientConn # 0
    /\ OnMessage(clientConn, Head(pipe))
    /\ pipe' = Tail(pipe)
    /\ UNCHANGED <<clientConn, crashed, orderVars, clientVars>>

\* The server's 'close' for the client's socket; frames not yet handled are
\* lost.
SessionServerClose ==
    /\ clientConn # 0
    /\ OnClose(clientConn)
    /\ pipe' = <<>>
    /\ UNCHANGED <<clientConn, crashed, orderVars, clientVars>>

\* The client's 'close': the handshake failed, the connection was lost, or
\* disconnect() closed it.
SessionClientClose ==
    /\ ClientOnClose
    /\ UNCHANGED <<serverVars, orderVars, sessionVars>>

\* The reconnect timer fires: connect() makes a new socket.
SessionTimerFires ==
    /\ clientConn # 0 => readyState[clientConn] = "CLOSED"
    /\ ClientTimerFires
    /\ clientConn' = 0
    /\ pipe' = <<>>
    /\ UNCHANGED <<serverVars, orderVars>>

\* disconnect()
SessionDisconnect ==
    /\ ClientDisconnect
    /\ UNCHANGED <<serverVars, orderVars, sessionVars>>

NextSession ==
    \/ SessionConnect
    \/ SessionAccept
    \/ SessionOpen
    \/ \E c \in ChannelNames : SessionSubscribe(c)
    \/ \E c \in ChannelNames : SessionUnsubscribe(c)
    \/ SessionHandle
    \/ SessionServerClose
    \/ SessionClientClose
    \/ SessionTimerFires
    \/ SessionDisconnect

SpecSession == Init /\ [][NextSession]_vars

-----------------------------------------------------------------------------
(* C22 *)

\* C22: whenever the client is connected and has no subscribe or
\* unsubscribe in flight, its subscribedChannels is the channel set the
\* server holds for its current connection, also after closes and
\* automatic reconnects.
C22_ClientAndServerAgreeOnChannels ==
    (clientWs = "OPEN" /\ pipe = <<>> /\ clientConn \in DOMAIN connections) =>
       subscribedChannels = connections[clientConn].channels

\* What holds: the two sets agree on the client's first connection.
ClientAndServerAgreeOnFirstConnection ==
    connectionIdCounter <= 1 => C22_ClientAndServerAgreeOnChannels

====
